---- MODULE Spec2Model ----
(***************************************************************************)
(* cachers: a bounded cache-through cache with clock (second chance)       *)
(* eviction.  The model follows src/src/eviction.rs (ClockEvictor),         *)
(* src/src/segment.rs (Segment / Inner) and src/src/lib.rs (CacheThrough). *)
(* Threads call get / update / remove; the facade's RwLock is modelled      *)
(* explicitly, so that atomicity is a consequence of the lock.              *)
(***************************************************************************)
EXTENDS Integers, FiniteSets, Sequences, TLC

\* ------------------------------------------------------------------ bounds
MaxCapacity == 2
NumKeys == 3
NumValues == 2
NumThreads == 2
MaxCalls == 3
MaxAdds == 12
MaxEvictorCapacity == 4
MaxTouches == 2
MaxSerialRemoves == 1

Keys == 1..NumKeys
Values == 1..NumValues
Threads == 1..NumThreads

\* Option::None for keys and for values
NoKey == 0
NoValue == 0

VARIABLES
  data,       \* segment.rs Inner.data : key -> [value, index]
  evictor,    \* eviction.rs Inner : [capacity, current_pos, clock, mapping]
  readers,    \* threads holding CacheThrough.data in read mode
  writer,     \* thread holding CacheThrough.data in write mode, or 0
  poisoned,   \* CacheThrough.data was poisoned by a panicking writer
  pc,         \* per thread: position in the operation it runs
  op,         \* per thread: the call it runs [kind, key]
  loc,        \* per thread: locals of the call [occ, prev, index, pending, tag, hit]
  ret,        \* per thread: the value the call returns (NoValue for None)
  invoked,    \* per thread: the call invoked its callback
  calls,      \* number of calls issued so far (a race counts once)
  keysUsed,   \* number of distinct keys the calls have named so far
  racing,     \* the threads were released together on one cold key
  pureFill,   \* every call so far was a populating get on a new key
  filled,     \* the keys requested so far while pureFill
  mode,       \* what drives the cache: threads (lib.rs), tasks of one
              \* cooperative scheduler (asynchronous.rs), or a bare ClockEvictor
  log,        \* bare ClockEvictor: the calls made so far
              \* [kind, key, index, victim]
  hammer,     \* bare ClockEvictor: the slot touched before every add once
              \* the evictor is full, or -1 when the touches are free
  twin        \* the asynchronous cache that is given the same calls as the
              \* synchronous one: [panic, data, evictor, ret]

vars == <<data, evictor, readers, writer, poisoned, pc, op, loc, ret, invoked,
          calls, keysUsed, racing, pureFill, filled, mode, log, hammer, twin>>

\* ------------------------------------------------------------- ClockEvictor
Min(S) == CHOOSE x \in S : \A y \in S : x <= y

\* ClockEvictor::new
NewEvictor(cap) ==
  [capacity |-> cap, current_pos |-> 0,
   clock |-> [i \in 0..(cap - 1) |-> FALSE],
   mapping |-> <<>>]

\* a touch that leaves the bit as it is
TouchNothing(ev, index) == ev

\* Inner::touch: clock[index] = true
Touch(ev, index) == [ev EXCEPT !.clock[index] = TRUE]

\* a scan that never finds an untouched slot
PositionNone(clock, lo, hi) == -1

\* iter_mut().position(flip_and_match) over clock[lo..hi]: the offset of the
\* first untouched slot, -1 for None
Position(clock, lo, hi) ==
  LET S == {i \in lo..(hi - 1) : ~clock[i]}
  IN IF S = {} THEN -1 ELSE Min(S) - lo

\* the side effect of the same scan: every slot visited has its bit cleared
ScanFlip(clock, lo, hi) ==
  LET p == Position(clock, lo, hi)
  IN [i \in DOMAIN clock |->
        IF i >= lo /\ i < hi /\ (p = -1 \/ i <= lo + p) THEN FALSE ELSE clock[i]]

\* the tail of Inner::victim: current_pos = index + 1 and
\* (index, mapping.remove(&index))
Evict(ev, index, clockAfter) ==
  [panic |-> FALSE,
   index |-> index,
   victim |-> IF index \in DOMAIN ev.mapping THEN ev.mapping[index] ELSE NoKey,
   evictor |-> [ev EXCEPT !.clock = clockAfter,
                          !.current_pos = index + 1,
                          !.mapping = [i \in DOMAIN ev.mapping \ {index} |-> ev.mapping[i]]]]

\* a panic inside the evictor: nothing is returned
EvictorPanic(ev) ==
  [panic |-> TRUE, index |-> 0, victim |-> NoKey, evictor |-> ev]

\* a victim index that is never reduced modulo the capacity
WrapNone(ev, raw, clockAfter) == Evict(ev, raw, clockAfter)

\* if index >= capacity { index %= capacity }: the remainder by 0 panics
Wrap(ev, raw, clockAfter) ==
  IF raw >= ev.capacity
  THEN IF ev.capacity = 0
       THEN EvictorPanic(ev)
       ELSE Evict(ev, raw % ev.capacity, clockAfter)
  ELSE Evict(ev, raw, clockAfter)

\* the scan of clock[..current_pos] after clock[current_pos..] found nothing;
\* its offset, counted from 0, is added to current_pos all the same
SecondScan(ev, c1) ==
  LET p2 == Position(c1, 0, ev.current_pos)
  IN Wrap(ev,
          ev.current_pos + (IF p2 # -1 THEN p2 ELSE ev.current_pos),
          ScanFlip(c1, 0, ev.current_pos))

\* Inner::victim; clock[current_pos..] panics when current_pos > len
Victim(ev) ==
  LET p1 == Position(ev.clock, ev.current_pos, ev.capacity)
  IN IF ev.current_pos > ev.capacity
     THEN EvictorPanic(ev)
     ELSE IF p1 # -1
          THEN Wrap(ev, ev.current_pos + p1,
                    ScanFlip(ev.clock, ev.current_pos, ev.capacity))
          ELSE SecondScan(ev, ScanFlip(ev.clock, ev.current_pos, ev.capacity))

\* an add that does not touch the slot it fills
SlotUntouched(ev, key, index, victim) ==
  [panic |-> FALSE,
   index |-> index,
   victim |-> victim,
   evictor |-> [ev EXCEPT !.mapping = (index :> key) @@ ev.mapping]]

\* the tail of ClockEvictor::add: mapping.insert(index, key); touch(index)
Slot(ev, key, index, victim) ==
  [panic |-> FALSE,
   index |-> index,
   victim |-> victim,
   evictor |-> Touch([ev EXCEPT !.mapping = (index :> key) @@ ev.mapping], index)]

\* ClockEvictor::add once inner.victim() has answered
AddVictim(ev, key, v) ==
  IF v.panic THEN EvictorPanic(ev) ELSE Slot(v.evictor, key, v.index, v.victim)

\* ClockEvictor::add
Add(ev, key) ==
  IF Cardinality(DOMAIN ev.mapping) < ev.capacity
  THEN Slot(ev, key, Cardinality(DOMAIN ev.mapping), NoKey)
  ELSE AddVictim(ev, key, Victim(ev))

\* ------------------------------------------------------------------ Segment
\* Segment::len
len == Cardinality(DOMAIN data)

ValueOf(d, k) == IF k \in DOMAIN d THEN d[k].value ELSE NoValue

\* a remove that leaves the entry in the map
MapRemoveNothing(d, k) == d

\* HashMap::remove
MapRemove(d, k) == [x \in DOMAIN d \ {k} |-> d[x]]

\* entry.insert(CacheEntry::Value(CacheValue { value, index }))
MapInsert(d, k, v, i) == (k :> [value |-> v, index |-> i]) @@ d

\* an entry lookup that leaves a placeholder in the map for the callback
AtCallbackReserved(d, k) == (k :> [value |-> NoValue, index |-> 0]) @@ d

\* the map while the callback runs: data.entry(key) borrows the map and
\* writes nothing before the callback has returned
AtCallback(d, k) == d

\* an entry lookup that never finds the key
OccupiedNever(d, k) == FALSE

\* match self.data.entry(key): Entry::Occupied or Entry::Vacant
Occupied(d, k) == k \in DOMAIN d

\* entry.insert of the new value at the slot the evictor gave
InsertAt(d, key, value, r) ==
  IF r.panic THEN d ELSE MapInsert(d, key, value, r.index)

\* a population that forgets to remove the evicted key from the map
PopulateKeepsVictim(d, key, value, r) ==
  [panic |-> r.panic, data |-> InsertAt(d, key, value, r), evictor |-> r.evictor]

\* after the match: if key_evicted.is_some() { data.remove(&key_evicted) }
RemoveEvicted(d, key, value, r) ==
  [panic |-> r.panic,
   data |-> IF r.panic \/ r.victim = NoKey
            THEN InsertAt(d, key, value, r)
            ELSE MapRemove(InsertAt(d, key, value, r), r.victim),
   evictor |-> r.evictor]

\* the Some(value) arm of a Vacant entry: evictor.add, entry.insert, and,
\* after the match, data.remove(&key_evicted)
Populate(d, ev, key, value) == RemoveEvicted(d, key, value, Add(ev, key))

\* segment.rs Inner::update, the Occupied arm once updating_fn has returned
\* `pending`: overwrite the value and touch the slot, or set remove_entry and
\* remove the key after the match
OccupiedArm(d, ev, key, index, pending) ==
  IF pending # NoValue
  THEN [panic |-> FALSE, data |-> MapInsert(d, key, pending, index),
        evictor |-> Touch(ev, index)]
  ELSE [panic |-> FALSE, data |-> MapRemove(d, key), evictor |-> ev]

\* a Vacant arm that asks the evictor for a slot before looking at the result
VacantArmEager(d, ev, key, pending) ==
  IF pending = NoValue
  THEN [panic |-> Add(ev, key).panic, data |-> d, evictor |-> Add(ev, key).evictor]
  ELSE Populate(d, ev, key, pending)

\* the Vacant arm once the callback has returned `pending`
VacantArm(d, ev, key, pending) ==
  IF pending = NoValue
  THEN [panic |-> FALSE, data |-> d, evictor |-> ev]
  ELSE Populate(d, ev, key, pending)

\* the callbacks.  What a callback does is chosen when it is invoked: it
\* returns Some(v), returns None, panics, or (an updating_fn) derives the new
\* value from the previous one
Successor(prev) == (prev % NumValues) + 1

\* the populating functions of the racing threads return distinct values
RaceValue(t) == ((t - 1) % NumValues) + 1

Outcomes(t, prev) ==
  IF racing THEN {[tag |-> "some", v |-> RaceValue(t)]}
  ELSE {[tag |-> "some", v |-> v] : v \in Values}
       \cup {[tag |-> "none", v |-> NoValue], [tag |-> "panic", v |-> NoValue]}
       \cup (IF op[t].kind = "update" THEN {[tag |-> "next", v |-> Successor(prev)]} ELSE {})

\* a remove whose closure returns a value
RemoveFnSome == {[tag |-> "some", v |-> Min(Values)]}

\* CacheThrough::remove passes the closure |_, _| None
RemoveFn == {[tag |-> "none", v |-> NoValue]}

NoLoc == [occ |-> FALSE, prev |-> NoValue, index |-> 0, pending |-> NoValue,
          tag |-> "none", hit |-> "no"]
NoOp == [kind |-> "none", key |-> NoKey]

\* ------------------------------------------------------------------ locking
\* RwLock::read is granted while no writer holds the lock
CanRead(t) == writer = 0

\* a lock that grants exclusive access while others hold it
CanWriteShared(t) == TRUE

\* RwLock::write is granted while nobody holds the lock
CanWrite(t) == writer = 0 /\ readers = {}

\* Inner::touch: self.clock.write() is granted while no other thread holds
\* the clock
CanTouch(t) == \A u \in Threads \ {t} : pc[u] # "get_clock"

\* a read guard that outlives the statement that created it
KeepRead(rs, t) == rs \cup {t}

\* the temporary guard of `if let Some(value) = self.data.read().unwrap()
\* .get(&key)` is dropped at the end of the statement, before the call asks
\* for self.data.write()
DropRead(rs, t) == rs \ {t}

\* a panic unwinds through the guards the thread holds: a write guard
\* poisons the lock
Unwind(t) ==
  /\ poisoned' = (poisoned \/ writer = t)
  /\ writer' = IF writer = t THEN 0 ELSE writer

\* --------------------------------------------------------------------- Init
Modes == {"threads", "tasks", "evictor", "serial", "test", "pair"}

\* tests::test_cache: CacheThrough::new(3)
TestCapacity == 3

\* tests::evicts: the keys of its calls to cache.get, in order; the calls on
\* keys 1..6 populate, the others hit (their populating function panics if
\* it is invoked)
TestEvicts == <<1, 2, 3, 4, 2, 3, 5, 2, 4, 6, 5, 2>>

\* the largest capacity of the cache or evictor under test
CapacityBound ==
  IF mode = "evictor" THEN MaxEvictorCapacity
  ELSE IF mode = "test" THEN TestCapacity ELSE MaxCapacity

Init ==
  /\ mode \in Modes
  /\ \E cap \in (IF mode = "test" THEN {TestCapacity} ELSE 0..CapacityBound) :
       evictor = NewEvictor(cap)
  /\ data = <<>>
  /\ readers = {}
  /\ writer = 0
  /\ poisoned = FALSE
  /\ pc = [t \in Threads |-> "idle"]
  /\ op = [t \in Threads |-> NoOp]
  /\ loc = [t \in Threads |-> NoLoc]
  /\ ret = [t \in Threads |-> NoValue]
  /\ invoked = [t \in Threads |-> FALSE]
  /\ calls = 0
  /\ keysUsed = 0
  /\ racing = FALSE
  /\ pureFill = TRUE
  /\ filled = {}
  /\ log = <<>>
  /\ hammer \in IF mode = "evictor" THEN -1..(evictor.capacity - 1) ELSE {-1}
  /\ twin = [panic |-> FALSE, data |-> <<>>, evictor |-> evictor, ret |-> NoValue]

\* ------------------------------------------------------------------ callers
\* The code only compares keys for equality (K: Eq + Hash), so the keys are
\* interchangeable: a call names a key used before or the next unused one
CallKeys == {k \in Keys : k <= keysUsed + 1}
UseKey(k) == keysUsed' = IF k > keysUsed THEN k ELSE keysUsed

\* the call of thread t returns r.  A racing thread keeps its result until the
\* threads are joined; otherwise the thread is ready for its next call
Finish(t, r) ==
  IF racing
  THEN /\ pc' = [pc EXCEPT ![t] = "done"]
       /\ ret' = [ret EXCEPT ![t] = r]
       /\ loc' = [loc EXCEPT ![t] = [NoLoc EXCEPT !.hit = loc[t].hit]]
       /\ UNCHANGED <<op, invoked>>
  ELSE /\ pc' = [pc EXCEPT ![t] = "idle"]
       /\ op' = [op EXCEPT ![t] = NoOp]
       /\ loc' = [loc EXCEPT ![t] = NoLoc]
       /\ ret' = [ret EXCEPT ![t] = NoValue]
       /\ invoked' = [invoked EXCEPT ![t] = FALSE]

\* the thread of a panicking call is gone
Die(t, how) ==
  /\ pc' = [pc EXCEPT ![t] = how]
  /\ op' = [op EXCEPT ![t] = NoOp]
  /\ loc' = [loc EXCEPT ![t] = NoLoc]
  /\ ret' = [ret EXCEPT ![t] = NoValue]
  /\ invoked' = [invoked EXCEPT ![t] = FALSE]

\* a thread calls CacheThrough::get(key, populating_fn)
CallGet(t) ==
  /\ mode = "threads"
  /\ pc[t] = "idle" /\ ~racing /\ calls < MaxCalls
  /\ \E k \in CallKeys :
       /\ op' = [op EXCEPT ![t] = [kind |-> "get", key |-> k]]
       /\ UseKey(k)
       /\ pureFill' = (pureFill /\ k \notin filled)
       /\ filled' = IF pureFill' THEN filled \cup {k} ELSE {}
  /\ pc' = [pc EXCEPT ![t] = "get_read"]
  /\ calls' = calls + 1
  /\ UNCHANGED <<data, evictor, readers, writer, poisoned, racing, loc, ret, invoked>>
  /\ UNCHANGED <<mode, log, hammer, twin>>

\* a thread calls CacheThrough::update(key, updating_fn)
CallUpdate(t) ==
  /\ mode = "threads"
  /\ pc[t] = "idle" /\ ~racing /\ calls < MaxCalls
  /\ \E k \in CallKeys :
       /\ op' = [op EXCEPT ![t] = [kind |-> "update", key |-> k]]
       /\ UseKey(k)
  /\ pc' = [pc EXCEPT ![t] = "upd_write"]
  /\ calls' = calls + 1
  /\ pureFill' = FALSE /\ filled' = {}
  /\ UNCHANGED <<data, evictor, readers, writer, poisoned, racing, loc, ret, invoked>>
  /\ UNCHANGED <<mode, log, hammer, twin>>

\* a thread calls CacheThrough::remove(key): update(key, |_, _| None)
CallRemove(t) ==
  /\ mode = "threads"
  /\ pc[t] = "idle" /\ ~racing /\ calls < MaxCalls
  /\ \E k \in CallKeys :
       /\ op' = [op EXCEPT ![t] = [kind |-> "remove", key |-> k]]
       /\ UseKey(k)
  /\ pc' = [pc EXCEPT ![t] = "upd_write"]
  /\ calls' = calls + 1
  /\ pureFill' = FALSE /\ filled' = {}
  /\ UNCHANGED <<data, evictor, readers, writer, poisoned, racing, loc, ret, invoked>>
  /\ UNCHANGED <<mode, log, hammer, twin>>

\* all threads, released by a barrier, call get on one cold key, each with
\* its own populating function returning its own value
StartRace ==
  /\ mode = "threads"
  /\ ~racing /\ calls < MaxCalls
  /\ \A t \in Threads : pc[t] = "idle"
  /\ \E k \in CallKeys \ DOMAIN data :
       /\ op' = [t \in Threads |-> [kind |-> "get", key |-> k]]
       /\ UseKey(k)
  /\ pc' = [t \in Threads |-> "get_read"]
  /\ calls' = calls + 1
  /\ racing' = TRUE
  /\ pureFill' = FALSE /\ filled' = {}
  /\ UNCHANGED <<data, evictor, readers, writer, poisoned, loc, ret, invoked>>
  /\ UNCHANGED <<mode, log, hammer, twin>>

\* ------------------------------------------------------- CacheThrough::get
\* self.data.read().unwrap().get(&key): Segment::get up to the touch.  On a
\* miss the read guard is dropped at the end of the `if let`
GetRead(t) ==
  /\ pc[t] = "get_read"
  /\ IF poisoned
     THEN /\ Die(t, "panicked")
          /\ UNCHANGED readers
     ELSE /\ CanRead(t)
          /\ UNCHANGED <<op, ret, invoked>>
          /\ IF op[t].key \in DOMAIN data
             THEN /\ readers' = readers \cup {t}
                  /\ loc' = [loc EXCEPT ![t].index = data[op[t].key].index,
                                        ![t].prev = data[op[t].key].value,
                                        ![t].hit = "read"]
                  /\ pc' = [pc EXCEPT ![t] = "get_touch"]
             ELSE /\ pc' = [pc EXCEPT ![t] = "get_write"]
                  /\ readers' = DropRead(readers, t)
                  /\ UNCHANGED loc
  /\ UNCHANGED <<data, evictor, writer, poisoned, calls, keysUsed, racing,
                 pureFill, filled>>
  /\ UNCHANGED <<mode, log, hammer, twin>>

\* guard.evictor.touch(entry.index) asks for Inner.clock in write mode: the
\* reader waits while another reader holds it
GetTouch(t) ==
  /\ pc[t] = "get_touch"
  /\ CanTouch(t)
  /\ pc' = [pc EXCEPT ![t] = "get_clock"]
  /\ UNCHANGED <<data, evictor, readers, writer, poisoned, op, loc, ret, invoked,
                 calls, keysUsed, racing, pureFill, filled>>
  /\ UNCHANGED <<mode, log, hammer, twin>>

\* clock[index] = true; the clock guard and the read guard are dropped;
\* return Some(entry.value.clone())
GetClock(t) ==
  /\ pc[t] = "get_clock"
  /\ evictor' = Touch(evictor, loc[t].index)
  /\ readers' = readers \ {t}
  /\ Finish(t, loc[t].prev)
  /\ UNCHANGED <<data, writer, poisoned, calls, keysUsed, racing, pureFill, filled>>
  /\ UNCHANGED <<mode, log, hammer, twin>>

\* let option = self.data.write(); if option.is_ok() { ... } None
GetWrite(t) ==
  /\ pc[t] = "get_write"
  /\ IF poisoned
     THEN /\ Finish(t, NoValue)
          /\ UNCHANGED writer
     ELSE /\ CanWrite(t)
          /\ writer' = t
          /\ pc' = [pc EXCEPT ![t] = "gop_entry"]
          /\ UNCHANGED <<op, loc, ret, invoked>>
  /\ UNCHANGED <<data, evictor, readers, poisoned, calls, keysUsed, racing,
                 pureFill, filled>>
  /\ UNCHANGED <<mode, log, hammer, twin>>

\* Inner::get_or_populate: the entry lookup; Occupied touches and returns the
\* value, Vacant calls populating_fn
GetOrPopulateEntry(t) ==
  /\ pc[t] = "gop_entry"
  /\ IF Occupied(data, op[t].key)
     THEN /\ evictor' = Touch(evictor, data[op[t].key].index)
          /\ ret' = [ret EXCEPT ![t] = data[op[t].key].value]
          /\ loc' = [loc EXCEPT ![t].hit = "excl"]
          /\ pc' = [pc EXCEPT ![t] = "release"]
          /\ UNCHANGED <<data, op, invoked, poisoned, writer, pureFill, filled>>
     ELSE /\ UNCHANGED evictor
          /\ data' = AtCallback(data, op[t].key)
          /\ \E f \in Outcomes(t, NoValue) :
               /\ IF f.tag = "panic"
                  THEN /\ Die(t, "cb_panicked")
                       /\ Unwind(t)
                  ELSE /\ invoked' = [invoked EXCEPT ![t] = TRUE]
                       /\ loc' = [loc EXCEPT ![t].pending = f.v, ![t].tag = f.tag]
                       /\ pc' = [pc EXCEPT ![t] = "gop_insert"]
                       /\ UNCHANGED <<op, ret, poisoned, writer>>
               /\ pureFill' = (pureFill /\ f.tag = "some")
               /\ filled' = IF pureFill' THEN filled ELSE {}
  /\ UNCHANGED <<readers, calls, keysUsed, racing>>
  /\ UNCHANGED <<mode, log, hammer, twin>>

\* Inner::get_or_populate, Vacant arm after populating_fn returned
GetOrPopulateInsert(t) ==
  /\ pc[t] = "gop_insert"
  /\ LET r == VacantArm(data, evictor, op[t].key, loc[t].pending)
     IN IF r.panic
        THEN /\ Die(t, "panicked")
             /\ Unwind(t)
             /\ UNCHANGED <<data, evictor>>
        ELSE /\ data' = r.data
             /\ evictor' = r.evictor
             /\ ret' = [ret EXCEPT ![t] = loc[t].pending]
             /\ pc' = [pc EXCEPT ![t] = "release"]
             /\ UNCHANGED <<op, loc, invoked, poisoned, writer>>
  /\ UNCHANGED <<readers, calls, keysUsed, racing, pureFill, filled>>
  /\ UNCHANGED <<mode, log, hammer, twin>>

\* ---------------------------------------- CacheThrough::update and ::remove
\* self.data.write().unwrap()
UpdateWrite(t) ==
  /\ pc[t] = "upd_write"
  /\ IF poisoned
     THEN /\ Die(t, "panicked")
          /\ UNCHANGED writer
     ELSE /\ CanWrite(t)
          /\ writer' = t
          /\ pc' = [pc EXCEPT ![t] = "upd_entry"]
          /\ UNCHANGED <<op, loc, ret, invoked>>
  /\ UNCHANGED <<data, evictor, readers, poisoned, calls, keysUsed, racing,
                 pureFill, filled>>
  /\ UNCHANGED <<mode, log, hammer, twin>>

\* Inner::update: the entry lookup and the call of updating_fn with the
\* previous value; remove passes |_, _| None
UpdateEntry(t) ==
  /\ pc[t] = "upd_entry"
  /\ LET occ == Occupied(data, op[t].key)
         prev == ValueOf(data, op[t].key)
         fns == IF op[t].kind = "remove" THEN RemoveFn ELSE Outcomes(t, prev)
     IN \E f \in fns :
          IF f.tag = "panic"
          THEN /\ Die(t, "cb_panicked")
               /\ Unwind(t)
          ELSE /\ invoked' = [invoked EXCEPT ![t] = TRUE]
               /\ loc' = [loc EXCEPT ![t] =
                            [occ |-> occ, prev |-> prev,
                             index |-> IF occ THEN data[op[t].key].index ELSE 0,
                             pending |-> f.v, tag |-> f.tag, hit |-> "no"]]
               /\ pc' = [pc EXCEPT ![t] = IF occ THEN "upd_apply" ELSE "upd_insert"]
               /\ UNCHANGED <<op, ret, poisoned, writer>>
  /\ data' = AtCallback(data, op[t].key)
  /\ UNCHANGED <<evictor, readers, calls, keysUsed, racing, pureFill, filled>>
  /\ UNCHANGED <<mode, log, hammer, twin>>

\* Inner::update, Occupied arm after updating_fn returned: overwrite the
\* value and touch the slot, or remove the entry from the map
UpdateApply(t) ==
  /\ pc[t] = "upd_apply"
  /\ data' = OccupiedArm(data, evictor, op[t].key, loc[t].index, loc[t].pending).data
  /\ evictor' = OccupiedArm(data, evictor, op[t].key, loc[t].index, loc[t].pending).evictor
  /\ ret' = [ret EXCEPT ![t] = loc[t].pending]
  /\ pc' = [pc EXCEPT ![t] = "release"]
  /\ UNCHANGED <<readers, writer, poisoned, op, loc, invoked, calls, keysUsed, racing,
                 pureFill, filled>>
  /\ UNCHANGED <<mode, log, hammer, twin>>

\* Inner::update, Vacant arm after updating_fn returned
UpdateInsert(t) ==
  /\ pc[t] = "upd_insert"
  /\ LET r == VacantArm(data, evictor, op[t].key, loc[t].pending)
     IN IF r.panic
        THEN /\ Die(t, "panicked")
             /\ Unwind(t)
             /\ UNCHANGED <<data, evictor>>
        ELSE /\ data' = r.data
             /\ evictor' = r.evictor
             /\ ret' = [ret EXCEPT ![t] = loc[t].pending]
             /\ pc' = [pc EXCEPT ![t] = "release"]
             /\ UNCHANGED <<op, loc, invoked, poisoned, writer>>
  /\ UNCHANGED <<readers, calls, keysUsed, racing, pureFill, filled>>
  /\ UNCHANGED <<mode, log, hammer, twin>>

\* the write guard is dropped as the call returns; remove returns ()
Release(t) ==
  /\ pc[t] = "release"
  /\ writer' = IF writer = t THEN 0 ELSE writer
  /\ Finish(t, ret[t])
  /\ UNCHANGED <<data, evictor, readers, poisoned, calls, keysUsed, racing,
                 pureFill, filled>>
  /\ UNCHANGED <<mode, log, hammer, twin>>

\* the racing threads are joined
EndRace ==
  /\ racing
  /\ \A t \in Threads : pc[t] = "done"
  /\ pc' = [t \in Threads |-> "idle"]
  /\ op' = [t \in Threads |-> NoOp]
  /\ loc' = [t \in Threads |-> NoLoc]
  /\ ret' = [t \in Threads |-> NoValue]
  /\ invoked' = [t \in Threads |-> FALSE]
  /\ racing' = FALSE
  /\ UNCHANGED <<data, evictor, readers, writer, poisoned, calls, keysUsed, pureFill, filled>>
  /\ UNCHANGED <<mode, log, hammer, twin>>

\* ------------------------------------- asynchronous.rs: tasks of one thread
\* The tasks run on one cooperative scheduler thread: a poll runs, without
\* interleaving, up to the next await.  The thread is lost once a poll waits
\* in RwLock::read or RwLock::write for a guard a suspended task holds
SchedulerFree == \A u \in Threads : pc[u] # "a_blocked"

\* a task is created for get(key, populating_fn), update(key, updating_fn) or
\* remove(key)
AsyncCall(t) ==
  /\ mode = "tasks"
  /\ SchedulerFree
  /\ pc[t] = "idle" /\ calls < MaxCalls
  /\ \E k \in CallKeys, kind \in {"get", "update", "remove"} :
       /\ op' = [op EXCEPT ![t] = [kind |-> kind, key |-> k]]
       /\ UseKey(k)
  /\ pc' = [pc EXCEPT ![t] = "a_start"]
  /\ calls' = calls + 1
  /\ pureFill' = FALSE /\ filled' = {}
  /\ UNCHANGED <<data, evictor, readers, writer, poisoned, racing, loc, ret, invoked>>
  /\ UNCHANGED <<mode, log, hammer, twin>>

\* the first poll finds the lock poisoned: read().unwrap() of get and
\* write().unwrap() of update and remove panic
AsyncPollPoisoned(t) ==
  /\ Die(t, "panicked")
  /\ UNCHANGED <<data, evictor, writer, poisoned>>

\* the first poll asks for a guard that a suspended task of the same thread
\* holds: std documents that the call may deadlock or panic
AsyncPollHeld(t) ==
  /\ \E how \in {"a_blocked", "lock_panicked"} : Die(t, how)
  /\ UNCHANGED <<data, evictor, writer, poisoned>>

\* get, optimistic read: segment2.rs Inner::get touches and returns the value
AsyncPollHit(t) ==
  /\ evictor' = Touch(evictor, data[op[t].key].index)
  /\ Finish(t, data[op[t].key].value)
  /\ UNCHANGED <<data, writer, poisoned>>

\* segment2.rs Inner::update with a closure that yields None: Occupied
\* removes the entry (entry.remove()), Vacant does nothing
AsyncRemove(d, k) == IF Occupied(d, k) THEN MapRemove(d, k) ELSE d

\* remove: update with |_, _| async { None }, which is ready at once
AsyncPollRemove(t) ==
  /\ data' = AsyncRemove(data, op[t].key)
  /\ Finish(t, NoValue)
  /\ UNCHANGED <<evictor, writer, poisoned>>

\* get on a miss, update: the write guard is taken, the entry looked up and
\* the callback's future awaited with the guard held
AsyncPollAwait(t) ==
  /\ writer' = t
  /\ data' = AtCallback(data, op[t].key)
  /\ loc' = [loc EXCEPT ![t] =
               [occ |-> Occupied(data, op[t].key),
                prev |-> ValueOf(data, op[t].key),
                index |-> IF Occupied(data, op[t].key) THEN data[op[t].key].index ELSE 0,
                pending |-> NoValue, tag |-> "none", hit |-> "no"]]
  /\ pc' = [pc EXCEPT ![t] = "a_await"]
  /\ UNCHANGED <<evictor, poisoned, op, ret, invoked>>

\* the scheduler polls a new task for the first time
AsyncPoll(t) ==
  /\ pc[t] = "a_start"
  /\ SchedulerFree
  /\ IF poisoned THEN AsyncPollPoisoned(t)
     ELSE IF writer # 0 THEN AsyncPollHeld(t)
     ELSE IF op[t].kind = "get" /\ Occupied(data, op[t].key) THEN AsyncPollHit(t)
     ELSE IF op[t].kind = "remove" THEN AsyncPollRemove(t)
     ELSE AsyncPollAwait(t)
  /\ UNCHANGED <<readers, calls, keysUsed, racing, pureFill, filled>>
  /\ UNCHANGED <<mode, log, hammer, twin>>

\* a write-back that overwrites a value without touching its slot
AsyncApplyUntouched(d, ev, key, occ, index, pending) ==
  IF occ
  THEN IF pending # NoValue
       THEN [panic |-> FALSE, data |-> MapInsert(d, key, pending, index),
             evictor |-> ev]
       ELSE [panic |-> FALSE, data |-> MapRemove(d, key), evictor |-> ev]
  ELSE VacantArm(d, ev, key, pending)

\* the write-back once the callback's future has yielded `pending`
AsyncApply(d, ev, key, occ, index, pending) ==
  IF occ
  THEN IF pending # NoValue
       THEN [panic |-> FALSE, data |-> MapInsert(d, key, pending, index),
             evictor |-> Touch(ev, index)]
       ELSE [panic |-> FALSE, data |-> MapRemove(d, key), evictor |-> ev]
  ELSE VacantArm(d, ev, key, pending)

\* the result of the call is written back and the guard dropped, or the
\* evictor panics with the guard held
AsyncWriteBack(t, pending, r) ==
  IF r.panic
  THEN /\ Die(t, "panicked")
       /\ Unwind(t)
       /\ UNCHANGED <<data, evictor>>
  ELSE /\ data' = r.data
       /\ evictor' = r.evictor
       /\ writer' = 0
       /\ Finish(t, pending)
       /\ UNCHANGED poisoned

\* the awaited future completes and the scheduler polls the task again: the
\* callback panics, or its result is written back
AsyncResume(t) ==
  /\ pc[t] = "a_await"
  /\ SchedulerFree
  /\ \E f \in Outcomes(t, loc[t].prev) :
       IF f.tag = "panic"
       THEN /\ Die(t, "cb_panicked")
            /\ Unwind(t)
            /\ UNCHANGED <<data, evictor>>
       ELSE AsyncWriteBack(t, f.v,
              AsyncApply(data, evictor, op[t].key, loc[t].occ, loc[t].index, f.v))
  /\ UNCHANGED <<readers, calls, keysUsed, racing, pureFill, filled>>
  /\ UNCHANGED <<mode, log, hammer, twin>>

\* the task's future is dropped at its await point: the guard is dropped with
\* it, by a thread that is not panicking
AsyncDrop(t) ==
  /\ pc[t] = "a_await"
  /\ SchedulerFree
  /\ Die(t, "dropped")
  /\ writer' = 0
  /\ UNCHANGED <<data, evictor, readers, poisoned, calls, keysUsed, racing,
                 pureFill, filled>>
  /\ UNCHANGED <<mode, log, hammer, twin>>

\* ------------------------------------------- eviction.rs: a bare ClockEvictor
\* the calls of each kind made so far
Adds == {i \in 1..Len(log) : log[i].kind = "add"}
Touches == {i \in 1..Len(log) : log[i].kind = "touch"}
Panicked == \E i \in 1..Len(log) : log[i].kind = "panic"

\* the evictor stores the keys and hands them back, it never compares them:
\* every add brings a new key, the number of the add
AddKeys == {Cardinality(Adds) + 1}

\* the slot indices add has returned
Returned == {log[i].index : i \in Adds}

\* once the evictor is full a hammered slot is touched before every add
Hammering == hammer # -1 /\ Cardinality(Adds) >= evictor.capacity
LastKind == IF log = <<>> THEN "none" ELSE log[Len(log)].kind

\* what the call leaves in the log
Logged(kind, key, r) ==
  [kind |-> IF r.panic THEN "panic" ELSE kind,
   key |-> key,
   index |-> r.index,
   victim |-> r.victim]

\* evictor.add(key) on a ClockEvictor of its own; a panic inside it poisons
\* ClockEvictor.inner and ends the run
EvictorAdd ==
  /\ mode = "evictor"
  /\ ~Panicked
  /\ Cardinality(Adds) < MaxAdds
  /\ Hammering => LastKind = "touch"
  /\ \E k \in AddKeys :
       /\ evictor' = Add(evictor, k).evictor
       /\ log' = Append(log, Logged("add", k, Add(evictor, k)))
  /\ UNCHANGED <<data, readers, writer, poisoned, pc, op, loc, ret, invoked,
                 calls, keysUsed, racing, pureFill, filled, mode, hammer, twin>>

\* ClockEvictor::touch(index): clock[index] = true panics out of range
TouchCall(ev, index) ==
  IF index \in DOMAIN ev.clock
  THEN [panic |-> FALSE, index |-> index, victim |-> NoKey, evictor |-> Touch(ev, index)]
  ELSE [panic |-> TRUE, index |-> index, victim |-> NoKey, evictor |-> ev]

\* evictor.touch(index) with a slot index that add has returned
EvictorTouch ==
  /\ mode = "evictor"
  /\ ~Panicked
  /\ \E i \in Returned :
       /\ IF hammer = -1
          THEN Cardinality(Touches) < MaxTouches
          ELSE /\ Hammering /\ i = hammer
               /\ LastKind = "add" /\ Cardinality(Adds) < MaxAdds
       /\ evictor' = TouchCall(evictor, i).evictor
       /\ log' = Append(log, Logged("touch", NoKey, TouchCall(evictor, i)))
  /\ UNCHANGED <<data, readers, writer, poisoned, pc, op, loc, ret, invoked,
                 calls, keysUsed, racing, pureFill, filled, mode, hammer, twin>>

\* ------------------------------------------- one caller, whole calls
\* A single thread makes one call after the other on the cache; with nobody
\* to race against, each call runs from its first lock to its last release
\* without interleaving.
SerialKeys == CallKeys

\* the value the caller's populating function returns
SerialValue == Min(Values)

\* CacheThrough::get(key, |_| Some(v)) as one step: a hit under the read
\* lock touches the slot; a miss goes to get_or_populate under the write lock
GetResult(d, ev, k, v) ==
  IF Occupied(d, k)
  THEN [panic |-> FALSE, data |-> d, evictor |-> Touch(ev, d[k].index)]
  ELSE Populate(d, ev, k, v)

\* CacheThrough::remove(key) as one step: Inner::update with |_, _| None
\* (the caller removes keys that are resident; a remove of an absent key
\* changes nothing)
RemoveResult(d, ev, k) ==
  [panic |-> FALSE,
   data |-> IF Occupied(d, k) THEN MapRemove(d, k) ELSE d,
   evictor |-> ev]

\* the cache after the call, or the caller's panic under the write lock
SerialReturn(k, r) ==
  /\ UseKey(k)
  /\ pureFill' = FALSE
  /\ IF r.panic
     THEN /\ pc' = [pc EXCEPT ![1] = "panicked"]
          /\ poisoned' = TRUE
          /\ UNCHANGED <<data, evictor>>
     ELSE /\ data' = r.data
          /\ evictor' = r.evictor
          /\ UNCHANGED <<pc, poisoned>>
  /\ UNCHANGED <<readers, writer, op, loc, ret, invoked, racing, filled>>
  /\ UNCHANGED <<mode, log, hammer, twin>>

SerialGet ==
  /\ mode = "serial"
  /\ pc[1] = "idle"
  /\ \E k \in SerialKeys : SerialReturn(k, GetResult(data, evictor, k, SerialValue))
  /\ UNCHANGED calls

\* tests::evicts: the next call of the test on its capacity-3 cache
TestEvictsCall ==
  /\ mode = "test"
  /\ pc[1] = "idle"
  /\ calls < Len(TestEvicts)
  /\ calls' = calls + 1
  /\ SerialReturn(TestEvicts[calls + 1],
                  GetResult(data, evictor, TestEvicts[calls + 1], SerialValue))

SerialRemove ==
  /\ mode = "serial"
  /\ pc[1] = "idle"
  /\ calls < MaxSerialRemoves
  /\ calls' = calls + 1
  /\ \E k \in SerialKeys \cap DOMAIN data :
       SerialReturn(k, RemoveResult(data, evictor, k))

\* ------------------------- the same calls on lib.rs and on asynchronous.rs
\* One caller gives every call, with the same callback result, to a
\* synchronous cache (data, evictor) and to an asynchronous cache (twin) and
\* awaits the asynchronous call before it makes the next one.

\* what a call leaves: the cache, and the value returned unless it panicked
Outcome(r, v) ==
  [panic |-> r.panic, data |-> r.data, evictor |-> r.evictor,
   ret |-> IF r.panic THEN NoValue ELSE v]

\* the slot index recorded for a resident key
IndexOf(d, k) == IF k \in DOMAIN d THEN d[k].index ELSE 0

\* lib.rs get / update / remove over segment.rs, run to completion; the
\* callback returns `pending` if it is invoked
SyncCall(kind, d, ev, k, pending) ==
  IF kind = "get"
  THEN IF Occupied(d, k)
       THEN Outcome([panic |-> FALSE, data |-> d, evictor |-> Touch(ev, d[k].index)],
                    d[k].value)
       ELSE Outcome(VacantArm(d, ev, k, pending), pending)
  ELSE IF Occupied(d, k)
       THEN Outcome(OccupiedArm(d, ev, k, IndexOf(d, k), pending), pending)
       ELSE Outcome(VacantArm(d, ev, k, pending), pending)

\* asynchronous.rs get / update / remove over segment2.rs, awaited to
\* completion; the callback's future yields `pending` if it is created
TwinCall(kind, d, ev, k, pending) ==
  IF kind = "get" /\ Occupied(d, k)
  THEN Outcome([panic |-> FALSE, data |-> d, evictor |-> Touch(ev, d[k].index)],
               d[k].value)
  ELSE IF kind = "remove"
       THEN Outcome([panic |-> FALSE, data |-> AsyncRemove(d, k), evictor |-> ev],
                    NoValue)
       ELSE Outcome(AsyncApply(d, ev, k, Occupied(d, k), IndexOf(d, k), pending),
                    pending)

\* both calls have returned, or panicked in the evictor
PairReturn(k, s, a) ==
  /\ UseKey(k)
  /\ pureFill' = FALSE
  /\ data' = s.data
  /\ evictor' = s.evictor
  /\ ret' = [ret EXCEPT ![1] = s.ret]
  /\ pc' = [pc EXCEPT ![1] = IF s.panic THEN "panicked" ELSE "idle"]
  /\ poisoned' = s.panic
  /\ twin' = a
  /\ UNCHANGED <<readers, writer, op, loc, invoked, calls, racing, filled>>
  /\ UNCHANGED <<mode, log, hammer>>

\* the results the caller's callback may give: Some(v) or None; remove
\* passes a closure that gives None
PairResults(kind) == IF kind = "remove" THEN {NoValue} ELSE Values \cup {NoValue}

PairCall ==
  /\ mode = "pair"
  /\ pc[1] = "idle" /\ ~twin.panic
  /\ \E kind \in {"get", "update", "remove"}, k \in CallKeys :
       \E pending \in PairResults(kind) :
         PairReturn(k, SyncCall(kind, data, evictor, k, pending),
                       TwinCall(kind, twin.data, twin.evictor, k, pending))

Next ==
  \/ \E t \in Threads : CallGet(t)
  \/ \E t \in Threads : CallUpdate(t)
  \/ \E t \in Threads : CallRemove(t)
  \/ StartRace
  \/ \E t \in Threads : GetRead(t)
  \/ \E t \in Threads : GetTouch(t)
  \/ \E t \in Threads : GetClock(t)
  \/ \E t \in Threads : GetWrite(t)
  \/ \E t \in Threads : GetOrPopulateEntry(t)
  \/ \E t \in Threads : GetOrPopulateInsert(t)
  \/ \E t \in Threads : UpdateWrite(t)
  \/ \E t \in Threads : UpdateEntry(t)
  \/ \E t \in Threads : UpdateApply(t)
  \/ \E t \in Threads : UpdateInsert(t)
  \/ \E t \in Threads : Release(t)
  \/ EndRace
  \/ \E t \in Threads : AsyncCall(t)
  \/ \E t \in Threads : AsyncPoll(t)
  \/ \E t \in Threads : AsyncResume(t)
  \/ \E t \in Threads : AsyncDrop(t)
  \/ EvictorAdd
  \/ EvictorTouch
  \/ SerialGet
  \/ SerialRemove
  \/ TestEvictsCall
  \/ PairCall

Spec == Init /\ [][Next]_vars

\* ------------------------------------------------------------------- typing
TypeOK ==
  /\ DOMAIN data \subseteq (IF mode = "test" THEN 1..6 ELSE Keys)
  /\ evictor.capacity \in 0..CapacityBound
  /\ evictor.current_pos \in 0..evictor.capacity
  /\ DOMAIN evictor.clock = 0..(evictor.capacity - 1)
  /\ readers \subseteq Threads
  /\ writer \in Threads \cup {0}
  /\ calls \in 0..(IF mode = "test" THEN Len(TestEvicts) ELSE MaxCalls)


\* ------------------------------------------------------------------- claims
AllDone == \A t \in Threads : pc[t] = "done"
Invokers == {t \in Threads : invoked[t]}
CallbackPanicked == \E t \in Threads : pc[t] = "cb_panicked"
\* the race started on a cache no call had touched
FreshRace == racing /\ calls = 1

\* C1: for every capacity C >= 1 the number of resident entries of the
\* segment's map is at most C in every reachable state
C1_LenWithinCapacity ==
  evictor.capacity >= 1 => len <= evictor.capacity

\* a full segment in which a victim has been selected and replaced
C1_Witness ==
  /\ evictor.capacity >= 2
  /\ len = evictor.capacity
  /\ evictor.current_pos > 0

\* C2 (as stated): N threads racing on one absent key of a fresh cache of
\* capacity >= 1 invoke the populate function exactly once in total, and
\* every other thread gets the hit on its re-check under exclusive access
C2_Original ==
  (FreshRace /\ evictor.capacity >= 1) =>
    /\ Cardinality(Invokers) <= 1
    /\ AllDone => Cardinality(Invokers) = 1
    /\ \A t \in Threads :
         (pc[t] = "done" /\ ~invoked[t]) => loc[t].hit = "excl"

\* C2 (amended): the populate function is invoked exactly once in total;
\* every other thread returns the populated value from a hit, either on its
\* optimistic read or on its re-check under exclusive access
C2_PopulateOnce ==
  (FreshRace /\ evictor.capacity >= 1) =>
    /\ Cardinality(Invokers) <= 1
    /\ AllDone => Cardinality(Invokers) = 1
    /\ \A t \in Threads :
         (pc[t] = "done" /\ ~invoked[t]) =>
           /\ loc[t].hit \in {"read", "excl"}
           /\ ret[t] # NoValue
           /\ \E u \in Invokers : pc[u] = "done" /\ ret[u] = ret[t]

\* the race is over and a loser found the entry on its exclusive re-check
C2_Witness ==
  /\ FreshRace /\ evictor.capacity >= 1 /\ AllDone
  /\ \E t \in Threads : ~invoked[t] /\ loc[t].hit = "excl"

\* C3: N threads racing on one cold key with distinct populate functions
\* all return the same value, and afterwards the segment holds the entry
C3_Original ==
  (racing /\ AllDone) =>
    /\ \A t, u \in Threads : ret[t] = ret[u]
    /\ \A t \in Threads : op[t].key \in DOMAIN data

\* the same agreement restricted to a race on a cache no call had touched
FreshRaceAgrees ==
  (FreshRace /\ evictor.capacity >= 1 /\ AllDone) =>
    /\ \A t, u \in Threads : ret[t] = ret[u]
    /\ \A t \in Threads : op[t].key \in DOMAIN data

\* C4: whenever get, get_or_populate or update returns a value v for key k,
\* k is resident with value v when the call returns
C4_Original ==
  \A t \in Threads :
    /\ (pc[t] = "release" /\ op[t].kind \in {"get", "update"} /\ ret[t] # NoValue)
         => ValueOf(data, op[t].key) = ret[t]
    /\ pc[t] = "get_touch" => ValueOf(data, op[t].key) = loc[t].prev

\* C5: an insertion of an absent key while the resident count is below the
\* capacity grows the length by one and removes no other resident key
C5_Original ==
  [][\A t \in Threads :
       ( /\ pc[t] \in {"gop_insert", "upd_insert"}
         /\ pc'[t] = "release"
         /\ loc[t].pending # NoValue
         /\ op[t].key \notin DOMAIN data
         /\ len < evictor.capacity )
       => /\ Cardinality(DOMAIN data') = len + 1
          /\ DOMAIN data \subseteq DOMAIN data']_vars

\* C6: on a cache of capacity 0 no call panics (unless its callback does),
\* every access is a miss and the resident count stays 0
C6_Original ==
  (evictor.capacity = 0 /\ ~CallbackPanicked) =>
    /\ \A t \in Threads : pc[t] # "panicked" /\ loc[t].hit = "no"
    /\ len = 0

\* C7: on a fresh cache of capacity C >= 1 filled through populating gets on
\* distinct keys, the resident count never exceeds C, the first C insertions
\* evict nothing, and each further insertion keeps the new key and removes
\* exactly one earlier key
InFlight ==
  {op[t].key : t \in {u \in Threads :
                        pc[u] \in {"get_read", "get_write", "gop_entry", "gop_insert"}}}
Inserted == filled \ InFlight

C7_FillEvictsOne ==
  (pureFill /\ evictor.capacity >= 1) =>
    /\ len <= evictor.capacity
    /\ DOMAIN data \subseteq Inserted
    /\ Cardinality(Inserted) <= evictor.capacity => DOMAIN data = Inserted
    /\ Cardinality(Inserted) > evictor.capacity => len = evictor.capacity
    /\ \A t \in Threads : pc[t] = "release" => op[t].key \in DOMAIN data

\* C + 1 distinct keys were inserted into a cache of capacity C = 2
C7_Witness ==
  /\ pureFill /\ evictor.capacity = 2
  /\ Cardinality(Inserted) = 3
  /\ \A t \in Threads : pc[t] \in {"idle", "done"}

\* C8: a get whose lookup finds the key resident does not invoke the
\* populate function, leaves the map unchanged and returns the stored value
\* (it returns nothing else: when the lock is poisoned the call panics)
C8_HitSkipsPopulate ==
  [][\A t \in Threads :
       ( /\ op[t].kind = "get"
         /\ pc[t] \in {"get_read", "gop_entry"} /\ pc'[t] # pc[t]
         /\ op[t].key \in DOMAIN data )
       => /\ ~invoked'[t]
          /\ data' = data
          /\ pc'[t] \in {"get_touch", "release", "panicked"}
          /\ pc'[t] = "panicked" => poisoned
          /\ pc'[t] = "get_touch" => loc'[t].prev = data[op[t].key].value
          /\ pc'[t] = "release" => ret'[t] = data[op[t].key].value]_vars

\* a get found the key on its exclusive re-check and returned without a call
C8_Witness ==
  \E t \in Threads :
    /\ pc[t] = "release" /\ op[t].kind = "get" /\ loc[t].hit = "excl"
    /\ ~invoked[t] /\ ret[t] # NoValue

\* C9: a get on an absent key whose populate function returns nothing
\* returns nothing and changes neither the map nor the evictor
C9_MissLeavesState ==
  [][\A t \in Threads :
       ( /\ op[t].kind = "get" /\ pc'[t] # pc[t]
         /\ \/ pc[t] = "get_read" /\ pc'[t] = "get_write"
            \/ pc[t] = "get_write" /\ pc'[t] = "gop_entry"
            \/ pc[t] = "gop_entry" /\ pc'[t] = "gop_insert"
            \/ pc[t] \in {"gop_insert", "release"} /\ invoked[t]
                 /\ loc[t].pending = NoValue )
       => /\ data' = data
          /\ evictor' = evictor
          /\ pc'[t] = "release" => ret'[t] = NoValue]_vars

\* a get on a full cache returned nothing after its populate function did
C9_Witness ==
  \E t \in Threads :
    /\ pc[t] = "release" /\ op[t].kind = "get" /\ invoked[t]
    /\ loc[t].pending = NoValue /\ ret[t] = NoValue
    /\ len = evictor.capacity /\ evictor.capacity >= 1

\* C10: update is atomic per call: when the result of updating_fn is written
\* back, the previous value it was given is the value in the map, so a value
\* derived from the previous one is derived from the current one
C10_UpdateAtomic ==
  \A t \in Threads :
    pc[t] \in {"upd_apply", "upd_insert"} =>
      /\ loc[t].prev = ValueOf(data, op[t].key)
      /\ loc[t].occ = (op[t].key \in DOMAIN data)
      /\ loc[t].tag = "next" => loc[t].pending = Successor(ValueOf(data, op[t].key))

\* two updates of one resident key overlap: one is about to write back a
\* value derived from the previous one while the other waits for the lock
C10_Witness ==
  \E t, u \in Threads :
    /\ t # u
    /\ pc[t] = "upd_apply" /\ loc[t].tag = "next"
    /\ pc[u] = "upd_write" /\ op[u].kind = "update" /\ op[u].key = op[t].key

\* the entries of the map other than the entry of key k
Others(d, k) == [x \in DOMAIN d \ {k} |-> d[x]]

\* C11: update on a resident key whose function returns a value replaces the
\* value, keeps the slot index, sets the slot's touched bit, leaves the length
\* and every other entry unchanged and returns the new value
C11_UpdateOverwrites ==
  [][\A t \in Threads :
       ( /\ pc[t] = "upd_apply" /\ pc'[t] = "release"
         /\ op[t].kind = "update"
         /\ op[t].key \in DOMAIN data
         /\ loc[t].pending # NoValue )
       => /\ op[t].key \in DOMAIN data'
          /\ data'[op[t].key].value = loc[t].pending
          /\ data'[op[t].key].index = data[op[t].key].index
          /\ evictor'.clock[data[op[t].key].index]
          /\ Cardinality(DOMAIN data') = len
          /\ Others(data', op[t].key) = Others(data, op[t].key)
          /\ ret'[t] = loc[t].pending]_vars

\* an update overwrote one of two resident entries with a new value
C11_Witness ==
  \E t \in Threads :
    /\ pc[t] = "release" /\ op[t].kind = "update"
    /\ loc[t].occ /\ loc[t].pending # NoValue /\ loc[t].pending # loc[t].prev
    /\ len = 2

\* C12: update on a resident key whose function returns nothing removes
\* exactly that entry (length minus one, the other entries unchanged) and
\* returns nothing; the key is then absent, so a following get misses
C12_UpdateNoneRemoves ==
  [][\A t \in Threads :
       ( /\ pc[t] = "upd_apply" /\ pc'[t] = "release"
         /\ op[t].kind = "update"
         /\ op[t].key \in DOMAIN data
         /\ loc[t].pending = NoValue )
       => /\ op[t].key \notin DOMAIN data'
          /\ Cardinality(DOMAIN data') = len - 1
          /\ data' = Others(data, op[t].key)
          /\ ret'[t] = NoValue]_vars

\* an update returned nothing for one of two resident keys
C12_Witness ==
  \E t \in Threads :
    /\ pc[t] = "release" /\ op[t].kind = "update"
    /\ loc[t].occ /\ loc[t].tag = "none"
    /\ op[t].key \notin DOMAIN data /\ len = 1

\* C13: update on an absent key whose function returns nothing is a no-op:
\* no step of the call changes the map or the evictor (slot mapping, touched
\* bits, hand), and it returns nothing
C13_UpdateNoneAbsent ==
  [][\A t \in Threads :
       ( /\ op[t].kind = "update" /\ pc'[t] # pc[t]
         /\ op[t].key \notin DOMAIN data
         /\ \/ pc[t] = "upd_write" /\ pc'[t] = "upd_entry"
            \/ pc[t] = "upd_entry" /\ pc'[t] = "upd_insert"
            \/ pc[t] \in {"upd_insert", "release"} /\ loc[t].pending = NoValue )
       => /\ data' = data
          /\ evictor' = evictor
          /\ pc'[t] = "release" => ret'[t] = NoValue]_vars

\* an update of an absent key returned nothing on a full cache
C13_Witness ==
  \E t \in Threads :
    /\ pc[t] = "release" /\ op[t].kind = "update"
    /\ ~loc[t].occ /\ loc[t].tag = "none" /\ ret[t] = NoValue
    /\ op[t].key \notin DOMAIN data
    /\ len = evictor.capacity /\ evictor.capacity >= 1

\* C14: remove(key) is update(key, function returning nothing): from every
\* state the write-back of either leads to the one state in which the key is
\* absent from the map, every other entry is as before and the evictor (slot
\* mapping, touched bits, hand) is unchanged; a remove has nothing to write
C14_RemoveIsUpdateNone ==
  [][\A t \in Threads :
       ( /\ pc[t] \in {"upd_apply", "upd_insert"} /\ pc'[t] # pc[t]
         /\ \/ op[t].kind = "remove"
            \/ op[t].kind = "update" /\ loc[t].pending = NoValue )
       => /\ loc[t].pending = NoValue
          /\ pc'[t] = "release"
          /\ data' = Others(data, op[t].key)
          /\ evictor' = evictor
          /\ ret'[t] = NoValue]_vars

\* a remove took a resident key out of a full cache
C14_Witness ==
  \E t \in Threads :
    /\ pc[t] = "release" /\ op[t].kind = "remove" /\ loc[t].occ
    /\ op[t].key \notin DOMAIN data
    /\ len = evictor.capacity - 1

\* C15: once a holder of exclusive access has failed, every later get,
\* update or remove - a get about to escalate to exclusive access included -
\* ends in a fatal error and never returns a result
C15_Original ==
  [][\A t \in Threads :
       ( /\ poisoned
         /\ pc[t] \in {"get_read", "get_write", "upd_write"}
         /\ pc'[t] # pc[t] )
       => pc'[t] = "panicked"]_vars

\* the same for the calls that meet the failed lock on read().unwrap() or on
\* write().unwrap(): a get at its optimistic read, an update, a remove
PoisonIsFatalOnUnwrap ==
  [][\A t \in Threads :
       ( /\ poisoned
         /\ pc[t] \in {"get_read", "upd_write"}
         /\ pc'[t] # pc[t] )
       => pc'[t] = "panicked"]_vars

\* C16: a populate or update computation that is abandoned before it yields
\* a result (the callback panics, or the task's future is dropped at its
\* await) leaves the map and the evictor (slot mapping, touched bits, hand) as
\* they were: neither the steps of the call up to the callback nor the
\* abandonment change them
C16_AbandonLeavesState ==
  [][\A t \in Threads :
       ( /\ pc'[t] # pc[t]
         /\ \/ pc'[t] \in {"cb_panicked", "dropped"}
            \/ pc[t] = "get_write" /\ pc'[t] = "gop_entry"
            \/ pc[t] = "gop_entry" /\ pc'[t] = "gop_insert"
            \/ pc[t] = "upd_write" /\ pc'[t] = "upd_entry"
            \/ pc[t] = "upd_entry" /\ pc'[t] \in {"upd_apply", "upd_insert"}
            \/ pc[t] = "a_start" /\ pc'[t] = "a_await" )
       => /\ data' = data
          /\ evictor' = evictor]_vars

\* on a cache holding an entry one task's future was dropped at its await
\* and the callback of another panicked
C16_Witness ==
  /\ len >= 1
  /\ \E t, u \in Threads : pc[t] = "dropped" /\ pc[u] = "cb_panicked"

\* the step changes the map, the slot mapping or the hand
Mutation ==
  \/ data' # data
  \/ evictor'.mapping # evictor.mapping
  \/ evictor'.current_pos # evictor.current_pos

\* C17: every mutation of the segment (map insert or remove, slot allocation,
\* victim selection, hand movement) is a step of the thread that holds
\* exclusive access, while no thread holds shared access and no read-hit is
\* in progress
C17_MutationExclusive ==
  [][(mode = "threads" /\ Mutation) =>
       /\ writer \in Threads
       /\ readers = {}
       /\ pc'[writer] # pc[writer]
       /\ \A u \in Threads \ {writer} : pc'[u] = pc[u]
       /\ \A u \in Threads : pc[u] \notin {"get_touch", "get_clock"}]_vars

\* a thread has inserted an entry under exclusive access while another
\* thread asks for the same key
C17_Witness ==
  \E t, u \in Threads :
    /\ mode = "threads" /\ t # u
    /\ pc[t] = "release" /\ writer = t /\ invoked[t] /\ op[t].key \in DOMAIN data
    /\ pc[u] = "get_read" /\ op[u].key = op[t].key

\* C18: two threads performing read-hits never block each other: no reader
\* waits, at its touch, for a lock another reader holds
C18_Original ==
  \A t, u \in Threads :
    ~(t # u /\ pc[t] = "get_touch" /\ pc[u] = "get_clock")

\* C19: in the cooperative task model no task that contends for the guard of
\* a suspended holder blocks the scheduler thread (or fails on the lock)
C19_Original ==
  \A t \in Threads : pc[t] \notin {"a_blocked", "lock_panicked"}

\* the scheduler keeps polling: a task that can be polled is polled, a future
\* that can complete completes
FairSpec ==
  /\ Spec
  /\ \A t \in Threads : WF_vars(AsyncPoll(t)) /\ WF_vars(AsyncResume(t))

\* the liveness half of C19: every task that was created eventually ends
EveryTaskCompletes ==
  \A t \in Threads : (pc[t] = "a_start") ~> (pc[t] \notin {"a_start", "a_blocked"})

\* C20: on a fresh ClockEvictor of capacity C >= 1 that is only added to,
\* the i-th add (from 0) returns slot i mod C, evicts nothing when i < C and
\* otherwise evicts the key added by call i - C
C20_AddIsFifo ==
  (mode = "evictor" /\ evictor.capacity >= 1 /\ Touches = {}) =>
    \A i \in 1..Len(log) :
      /\ log[i].index = (i - 1) % evictor.capacity
      /\ log[i].victim = IF i <= evictor.capacity
                         THEN NoKey
                         ELSE log[i - evictor.capacity].key

\* capacity 4, keys 1..4, then 5 evicted 1 and 6 evicted 2
C20_Witness ==
  /\ mode = "evictor" /\ evictor.capacity = 4 /\ Len(log) = 6
  /\ \A i \in 1..6 : log[i].kind = "add" /\ log[i].key = i
  /\ log[5].victim = 1 /\ log[6].victim = 2

\* ------------------------------------------------ claims on the ClockEvictor
\* the log follows the script of calls up to its n-th call; a script names a
\* touch by its slot index and an add by -1
Follows(script, n) ==
  /\ mode = "evictor" /\ hammer = -1
  /\ Len(log) >= n /\ Len(script) >= n
  /\ \A i \in 1..n :
       IF script[i] = -1
       THEN log[i].kind = "add"
       ELSE log[i].kind = "touch" /\ log[i].index = script[i]

\* the step is an add on a full evictor, which selects a victim
VictimStep ==
  /\ mode = "evictor"
  /\ evictor.capacity >= 1
  /\ Cardinality(DOMAIN evictor.mapping) = evictor.capacity
  /\ Len(log') = Len(log) + 1
  /\ log'[Len(log')].kind = "add"

\* the j-th slot of a circuit of the clock that starts at the hand
Circuit(ev, j) == (ev.current_pos + j) % ev.capacity

\* the rank in that circuit of the first slot whose touched bit is clear, or
\* -1 when every slot is touched
FirstClear(ev) ==
  LET J == {j \in 0..(ev.capacity - 1) : ~ev.clock[Circuit(ev, j)]}
  IN IF J = {} THEN -1 ELSE Min(J)

\* fill capacity 4 with keys 1..4, touch slot 0 (key 1), add key 5
C21_Script == <<-1, -1, -1, -1, 0, -1>>

\* C21 (as stated): capacity 4 filled with keys 1,2,3,4; key 1 is touched
\* again right after inserting 4; the next insertion evicts key 2, not key 1
C21_Original ==
  (evictor.capacity = 4 /\ Follows(C21_Script, 6)) =>
    log[6].victim = 2

\* C21 (amended): all four bits were set by the insertions themselves, so
\* touching key 1 again changes nothing and the next insertion takes slot 0
\* and evicts key 1
C21_TouchAfterFill ==
  (evictor.capacity = 4 /\ Follows(C21_Script, 6)) =>
    /\ log[6].index = 0
    /\ log[6].victim = 1

\* the scenario has run
C21_Witness ==
  /\ evictor.capacity = 4 /\ Follows(C21_Script, 6) /\ Len(log) = 6
  /\ evictor.mapping[0] = 5

\* C22: victim selection on a full evictor picks the first slot, in circular
\* order from the hand, whose touched bit is clear; the touched slots visited
\* before it are cleared and the slots after it are not modified (the victim
\* slot itself is then touched by add)
C22_Original ==
  [][(VictimStep /\ FirstClear(evictor) # -1) =>
       /\ log'[Len(log')].index = Circuit(evictor, FirstClear(evictor))
       /\ \A j \in 0..(evictor.capacity - 1) :
            /\ j < FirstClear(evictor) => ~evictor'.clock[Circuit(evictor, j)]
            /\ j > FirstClear(evictor) =>
                 evictor'.clock[Circuit(evictor, j)] = evictor.clock[Circuit(evictor, j)]]_vars

\* C23: when every slot is touched, the victim is the slot at the hand
\* position the scan started from, for every hand position
C23_Original ==
  [][(VictimStep /\ FirstClear(evictor) = -1) =>
       log'[Len(log')].index = Circuit(evictor, 0)]_vars

\* C24: the hand satisfies 0 <= hand < capacity in every reachable state
\* (and so, after a victim selection, equals (victim_index + 1) mod capacity)
C24_Original ==
  evictor.capacity >= 1 =>
    /\ evictor.current_pos \in 0..(evictor.capacity - 1)
    /\ (mode = "evictor" /\ log # <<>> /\ LastKind = "add"
          /\ log[Len(log)].victim # NoKey)
         => evictor.current_pos = (log[Len(log)].index + 1) % evictor.capacity

\* C27: for capacity >= 1 no add and no touch of a returned slot index
\* panics, and every slot index returned by add lies in [0, capacity)
C27_EvictorNeverFails ==
  (mode = "evictor" /\ evictor.capacity >= 1) =>
    /\ ~Panicked
    /\ \A i \in Adds : log[i].index \in 0..(evictor.capacity - 1)
    /\ evictor.current_pos <= evictor.capacity

\* a long run with touches has left the hand one past the last slot, where
\* the slice clock[current_pos..] is empty
C27_Witness ==
  /\ mode = "evictor" /\ evictor.capacity >= 2
  /\ Cardinality(Adds) >= 9 /\ Cardinality(Touches) = 2
  /\ evictor.current_pos = evictor.capacity

\* C28: capacity 4 filled by four adds, touch(1) before every later add: no
\* later add selects slot 1 and the key first placed there is never evicted
C28_HammeredSlotStays ==
  (mode = "evictor" /\ evictor.capacity = 4 /\ hammer = 1) =>
    /\ \A i \in Adds : log[i].key > 4 => log[i].index # 1
    /\ \A i \in Adds : log[i].victim # 2
    /\ Cardinality(Adds) >= 2 => evictor.mapping[1] = 2

\* eight hammered adds have been made: the evictor went round its cycle of
\* three adds (slots 0, 2, 3) more than twice
C28_Witness ==
  /\ mode = "evictor" /\ evictor.capacity = 4 /\ hammer = 1
  /\ Cardinality(Adds) = 12 /\ Cardinality(Touches) = 8

\* adds of keys 1..9, touch(1), add(10), touch(3), add(11), add(12)
C29_Script == <<-1, -1, -1, -1, -1, -1, -1, -1, -1, 1, -1, 3, -1, -1>>

\* C29: capacity 4 after adds of keys 1..9 (slots 0..3 hold 9,6,7,8, hand
\* just past slot 0): touch(1), add(10) returns slot 2 evicting 7; touch(3),
\* add(11) returns slot 0 evicting 9; add(12) returns slot 1 evicting 6
C29_TestItWorks ==
  evictor.capacity = 4 =>
    /\ (Follows(C29_Script, 9) /\ Len(log) = 9) =>
         /\ evictor.mapping = (0 :> 9) @@ (1 :> 6) @@ (2 :> 7) @@ (3 :> 8)
         /\ evictor.current_pos = 1
    /\ Follows(C29_Script, 11) => log[11].index = 2 /\ log[11].victim = 7
    /\ Follows(C29_Script, 13) => log[13].index = 0 /\ log[13].victim = 9
    /\ Follows(C29_Script, 14) => log[14].index = 1 /\ log[14].victim = 6

\* the whole scenario has run
C29_Witness ==
  /\ evictor.capacity = 4 /\ Follows(C29_Script, 14) /\ Len(log) = 14
  /\ log[14].key = 12

\* ------------------------------------------- claims on the cache, serially
\* C25: the evictor's slot -> key mapping and the map's key -> slot
\* association are inverse bijections in every reachable state, also after
\* update-with-none, remove and re-insertion
C25_Original ==
  (mode = "serial" \/ (mode = "threads" /\ writer = 0)) =>
    /\ \A k \in DOMAIN data :
         /\ data[k].index \in DOMAIN evictor.mapping
         /\ evictor.mapping[data[k].index] = k
    /\ \A i \in DOMAIN evictor.mapping :
         /\ evictor.mapping[i] \in DOMAIN data
         /\ data[evictor.mapping[i]].index = i

\* C26: a resident entry leaves the map only by a remove (update-with-none)
\* of its own key or by a victim selection that chose the slot index the
\* entry records; no insertion of another key removes a resident entry whose
\* recorded slot was not the victim slot.  (A step that counts a call is a
\* remove; any other step that changes the map is the insertion of the key
\* that is new in it.)
C26_Original ==
  [][mode = "serial" =>
       \A k \in DOMAIN data \ DOMAIN data' :
         \/ calls' = calls + 1 /\ data' = MapRemove(data, k)
         \/ /\ calls' = calls
            /\ Cardinality(DOMAIN evictor.mapping) = evictor.capacity
            /\ \E j \in DOMAIN data' \ DOMAIN data :
                 Add(evictor, j).index = data[k].index]_vars

\* C30: capacity 3: after populating 1, 2, 3, populating 4 evicts 1; after
\* read-hits on 2 and 3, populating 5 evicts 3 while 2 and 4 stay; after
\* read-hits on 2 and 4, populating 6 evicts 4 while 5 and 2 stay; the
\* length is 3 after every step from the third insertion on
C30_Evicts ==
  mode = "test" =>
    /\ pc[1] # "panicked"
    /\ calls = 3 => DOMAIN data = {1, 2, 3}
    /\ calls = 4 => DOMAIN data = {2, 3, 4}
    /\ calls = 6 => DOMAIN data = {2, 3, 4} /\ evictor.clock = [i \in 0..2 |-> TRUE]
    /\ calls = 7 => DOMAIN data = {2, 4, 5}
    /\ calls = 9 => DOMAIN data = {2, 4, 5} /\ evictor.clock = [i \in 0..2 |-> TRUE]
    /\ calls = 10 => DOMAIN data = {2, 5, 6}
    /\ calls >= 3 => len = 3

\* the test has run to its end
C30_Witness ==
  /\ mode = "test"
  /\ calls = Len(TestEvicts)
  /\ DOMAIN data = {2, 5, 6}

\* C31: in every reachable state every resident entry (k, i) of the map
\* satisfies evictor.mapping[i] = k with i in [0, capacity); consequently
\* distinct resident keys record distinct slot indices
C31_ResidentSlotIsMapped ==
  /\ \A k \in DOMAIN data :
       /\ data[k].index \in 0..(evictor.capacity - 1)
       /\ data[k].index \in DOMAIN evictor.mapping
       /\ evictor.mapping[data[k].index] = k
  /\ \A k1, k2 \in DOMAIN data : k1 # k2 => data[k1].index # data[k2].index

\* a full cache after a remove, a re-insertion and an eviction: the key that
\* was removed and inserted again occupies a slot other than its first one
C31_Witness ==
  /\ mode = "serial"
  /\ evictor.capacity = 2 /\ len = 2
  /\ calls = 1 /\ keysUsed = 3
  /\ 1 \in DOMAIN data /\ data[1].index = 1

\* C33: for every sequential sequence of get / update / remove calls with
\* the same callback results, the asynchronous cache and the synchronous
\* cache return the same results and reach the same state (map contents,
\* slot indices, touched bits, hand) after each call
C33_AsyncMatchesSync ==
  mode = "pair" =>
    /\ twin.data = data
    /\ twin.evictor = evictor
    /\ twin.ret = ret[1]
    /\ twin.panic = (pc[1] = "panicked")

\* both caches are full after evictions that left the hand one past the
\* last slot, the first key is back in the second slot, and the last call
\* returned a value
C33_Witness ==
  /\ mode = "pair"
  /\ evictor.capacity = 2 /\ len = 2 /\ keysUsed = 3
  /\ evictor.current_pos = 2
  /\ 1 \in DOMAIN data /\ data[1].index = 1
  /\ ret[1] # NoValue /\ twin.ret = ret[1]
  /\ Cardinality(DOMAIN twin.data) = 2

\* ------------------------------------------------------ threads, liveness
\* the steps of a call of thread t, from its first lock to its return
ThreadStep(t) ==
  \/ GetRead(t) \/ GetTouch(t) \/ GetClock(t) \/ GetWrite(t)
  \/ GetOrPopulateEntry(t) \/ GetOrPopulateInsert(t)
  \/ UpdateWrite(t) \/ UpdateEntry(t) \/ UpdateApply(t) \/ UpdateInsert(t)
  \/ Release(t)

\* every thread keeps running and a lock that stays free is granted: a step
\* of a call that remains possible is taken (callbacks terminate: they are
\* part of one step)
LiveSpec ==
  /\ Spec
  /\ \A t \in Threads : WF_vars(ThreadStep(t))

\* thread t is inside a call
InCall(t) ==
  mode = "threads" /\ pc[t] \notin {"idle", "done", "panicked", "cb_panicked"}

\* some thread is inside a call and no thread inside a call can take a step
Deadlocked ==
  /\ \E t \in Threads : InCall(t)
  /\ \A t \in Threads : InCall(t) => ~ENABLED ThreadStep(t)

\* C32: with callbacks that terminate and do not call back into the cache,
\* every get, update and remove eventually returns under fair scheduling (a
\* callback that panics, or the evictor of capacity 0, ends a call without a
\* return), and no deadlock state is reachable
C32_CallsReturn ==
  /\ []~Deadlocked
  /\ [](mode = "threads" /\ evictor.capacity >= 1 /\ ~CallbackPanicked
          => ~poisoned /\ \A t \in Threads : pc[t] # "panicked")
  /\ \A t \in Threads :
       InCall(t) ~> (pc[t] \in {"idle", "done"} \/ CallbackPanicked
                       \/ evictor.capacity = 0)

\* a thread asks for exclusive access, after its optimistic read missed,
\* while another thread holds the read guard for a hit
C32_Witness ==
  /\ mode = "threads" /\ evictor.capacity >= 1 /\ ~CallbackPanicked
  /\ pc[1] = "get_write" /\ pc[2] = "get_clock" /\ 2 \in readers
  /\ calls = MaxCalls

====
